---- MODULE Spec2Model ----
(***************************************************************************)
(* Glossary service. The Term / Link variant (src/app): the SQLite store,  *)
(* the FastAPI handlers of src/app/main.py and the CSV import of           *)
(* src/app/import_data.py. The TermDB / TermRelation variant: the handlers *)
(* of src/main.py and the import of src/import_glossary.py.                *)
(*                                                                         *)
(* A handler works through a SQLAlchemy session created with               *)
(* autoflush=False (src/app/models.py:48): objects added with db.add() and *)
(* attribute changes stay in the session until db.commit(); a query sees   *)
(* only the rows already written to the database, but returns the          *)
(* session's own (possibly modified) object for a row it has loaded.       *)
(*                                                                         *)
(* Each handler is an operator from the request and the two tables to what *)
(* it returns and the tables it leaves. Spec, SpecImport and SpecTermDB    *)
(* serve one request at a time, each as one action; SpecConcurrent takes   *)
(* the handlers of two worker processes statement by statement.            *)
(***************************************************************************)
EXTENDS Integers, Sequences, FiniteSets, TLC

\* ---------------------------------------------------------------- bounds
MaxTermId   == 2    \* largest terms.id the model lets the store hand out
MaxLinkId   == 2    \* largest links.id the model lets the store hand out
MaxRows     == 2    \* rows of terms.csv and links.csv together, per import run of Spec
MaxFileRows == 3    \* rows of terms.csv and links.csv together, under SpecImport
MaxStartLinks == 1  \* Links in the store SpecImport starts from
MaxRuns     == 2    \* consecutive import runs over the same files
MaxRelationId == 2  \* largest term_relations.id the model lets the store hand out
MaxListRows == 2    \* rows of list.csv per run of import_glossary.py
MaxRelated  == 2    \* length of the related_terms list of a request

\* ------------------------------------------------------------ input sets
\* 'Подход к разработке интерфейса' and 'Классическая разработка UI',
\* transliterated; "Backend-Driven UI" is the source's own string.
RootName      == "Podhod k razrabotke interfeisa"
ApproachNames == {"Klassicheskaya razrabotka UI", "Backend-Driven UI"}

Names       == {"A", "Backend-Driven UI"}
Definitions == {"def A", "def B"}
Relations   == {"related"}
NodeTypes   == {"root", "approach", "term"}

None == "None"      \* Python None for an optional string field
NoId == 0           \* .first() found no row (ids start at 1)

VARIABLES
    terms,      \* table terms: id -> [term, definition, node_type]
    links,      \* table links: id -> [source_id, target_id, relation]
    response,   \* what the last handler returned or raised
    terms_csv,  \* rows of the file terms.csv
    links_csv,  \* rows of the file links.csv
    runs,       \* import runs over these files since the last other request
    report,     \* what the last of these runs printed
    warned,     \* the rows of links.csv some run over these files skipped
    term_relations, \* table term_relations of src/main.py:
                    \* id -> [term_id, related_term_id, relation_type]
    workers     \* the request each worker process is serving: where the
                \* handler stands, its request, its local variables and,
                \* once it has returned, its response

files == <<terms_csv, links_csv>>
vars  == <<terms, links, response, terms_csv, links_csv, runs, report, warned, term_relations,
           workers>>

\* ------------------------------------------------------------- the store
Max(S) == CHOOSE x \in S : \A y \in S : y <= x

\* id = Column(Integer, primary_key=True): SQLite rowid, max(rowid) + 1
NextId(table) == IF DOMAIN table = {} THEN 1 ELSE Max(DOMAIN table) + 1

\* Query.first(): the row with the lowest rowid among the matches, or None
first(ids) == IF ids = {} THEN NoId ELSE CHOOSE i \in ids : \A j \in ids : i <= j

\* db.query(Term).filter(Term.term == name)
TermsNamed(T, name) == {i \in DOMAIN T : T[i].term = name}

\* variant: the query for an existing Link finds none
LinksLike_None(L, s, t, r) == {}

\* db.query(Link).filter(source_id == s, target_id == t, relation == r)
LinksLike(L, s, t, r) ==
    {i \in DOMAIN L : L[i].source_id = s /\ L[i].target_id = t /\ L[i].relation = r}

\* variant: terms.term without the unique index
UniqueViolation_NoIndex(T, row) == FALSE

\* term = Column(String, unique=True): the INSERT of row violates the index
UniqueViolation(T, row) == \E i \in DOMAIN T : T[i].term = row.term

\* flush of the session's pending Term objects, in db.add() order; an
\* IntegrityError aborts the flush and the transaction is rolled back
RECURSIVE InsertTerms(_, _)
InsertTerms(T, new) ==
    IF new = <<>> THEN [raised |-> FALSE, table |-> T]
    ELSE IF UniqueViolation(T, Head(new)) THEN [raised |-> TRUE, table |-> T]
    ELSE InsertTerms(T @@ (NextId(T) :> Head(new)), Tail(new))

\* flush of the session's pending Link objects; links has no constraint
\* beyond its primary key
RECURSIVE InsertLinks(_, _)
InsertLinks(L, new) ==
    IF new = <<>> THEN L
    ELSE InsertLinks(L @@ (NextId(L) :> Head(new)), Tail(new))

HTTPException(status_code, detail) == [status |-> status_code, detail |-> detail]

\* ------------------------------------------------ src/app/main.py handlers
\* TermCreate / TermUpdate / LinkCreate request bodies (src/app/schemas.py)
TermCreate == [term : Names, definition : Definitions, node_type : NodeTypes]
TermUpdate == [term : Names \cup {None}, definition : Definitions \cup {None},
               node_type : NodeTypes \cup {None}]
LinkCreate == [source : Names, target : Names, relation : Relations]

\* what a handler leaves: its response and the two tables
Result(resp, T, L) == [response |-> resp, terms |-> T, links |-> L]

\* variant: create_term on an existing name overwrites its definition
create_term_Overwrite(term_data, T, L) ==
    LET existing == first(TermsNamed(T, term_data.term))
        db_term  == [term |-> term_data.term, definition |-> term_data.definition,
                     node_type |-> "term"]
    IN  IF existing # NoId
        THEN Result([status |-> 201, detail |-> "term"],
                    [T EXCEPT ![existing].definition = term_data.definition], L)
        ELSE Result([status |-> 201, detail |-> "term"], InsertTerms(T, <<db_term>>).table, L)

\* POST /api/terms
create_term(term_data, T, L) ==
    LET existing == first(TermsNamed(T, term_data.term))
        db_term  == [term |-> term_data.term, definition |-> term_data.definition,
                     node_type |-> "term"]      \* Column default; node_type is not passed
        commit   == InsertTerms(T, <<db_term>>)
    IN  IF existing # NoId
        THEN Result(HTTPException(400, "Termin uzhe sushchestvuet"), T, L)
        ELSE IF commit.raised
        THEN Result(HTTPException(500, "IntegrityError"), T, L)
        ELSE Result([status |-> 201, detail |-> "term"], commit.table, L)

\* variant: update_term that stores the supplied definition before it
\* tests the new name
update_term_DefinitionFirst(term_id, term_data, T, L) ==
    LET existing == first({i \in TermsNamed(T, term_data.term) : i # term_id})
        defined  == IF term_data.definition # None
                    THEN [T EXCEPT ![term_id].definition = term_data.definition]
                    ELSE T
    IN  IF term_id \notin DOMAIN T
        THEN Result(HTTPException(404, "Termin ne naiden"), T, L)
        ELSE IF term_data.term # None /\ existing # NoId
        THEN Result(HTTPException(400, "Termin s takim nazvaniem uzhe sushchestvuet"), defined, L)
        ELSE Result([status |-> 200, detail |-> "term"],
                    IF term_data.term # None
                    THEN [defined EXCEPT ![term_id].term = term_data.term]
                    ELSE defined, L)

\* PUT /api/terms/{term_id}
update_term(term_id, term_data, T, L) ==
    LET existing == first({i \in TermsNamed(T, term_data.term) : i # term_id})
        renamed  == IF term_data.term # None
                    THEN [T[term_id] EXCEPT !.term = term_data.term]
                    ELSE T[term_id]
        updated  == IF term_data.definition # None
                    THEN [renamed EXCEPT !.definition = term_data.definition]
                    ELSE renamed
    IN  IF term_id \notin DOMAIN T
        THEN Result(HTTPException(404, "Termin ne naiden"), T, L)
        ELSE IF term_data.term # None /\ existing # NoId
        THEN Result(HTTPException(400, "Termin s takim nazvaniem uzhe sushchestvuet"), T, L)
        ELSE Result([status |-> 200, detail |-> "term"], [T EXCEPT ![term_id] = updated], L)

\* variant: the bulk DELETE filters on source_id only
LinksOfTerm_SourceOnly(L, term_id) == {i \in DOMAIN L : L[i].source_id = term_id}

\* the bulk DELETE of delete_term: every Link with the Term as source or target
LinksOfTerm(L, term_id) ==
    {i \in DOMAIN L : L[i].source_id = term_id \/ L[i].target_id = term_id}

\* variant: delete_term whose bulk DELETE has no filter
delete_term_EveryLink(term_id, T, L) ==
    IF term_id \notin DOMAIN T
    THEN Result(HTTPException(404, "Termin ne naiden"), T, L)
    ELSE Result([status |-> 204, detail |-> "term"], [i \in DOMAIN T \ {term_id} |-> T[i]], <<>>)

\* DELETE /api/terms/{term_id}
delete_term(term_id, T, L) ==
    IF term_id \notin DOMAIN T
    THEN Result(HTTPException(404, "Termin ne naiden"), T, L)
    ELSE Result([status |-> 204, detail |-> "term"],
                [i \in DOMAIN T \ {term_id} |-> T[i]],
                [i \in DOMAIN L \ LinksOfTerm(L, term_id) |-> L[i]])

\* variant: create_link without the query for an existing Link
create_link_NoDuplicateQuery(link_data, T, L) ==
    LET source_term == first(TermsNamed(T, link_data.source))
        target_term == first(TermsNamed(T, link_data.target))
        db_link     == [source_id |-> source_term, target_id |-> target_term,
                        relation |-> link_data.relation]
    IN  IF source_term = NoId
        THEN Result(HTTPException(404, "Ishodnyi termin ne naiden"), T, L)
        ELSE IF target_term = NoId
        THEN Result(HTTPException(404, "Celevoi termin ne naiden"), T, L)
        ELSE Result([status |-> 201, detail |-> "link"], T, InsertLinks(L, <<db_link>>))

\* variant: create_link that tests the source Term only; target_term.id of
\* a missing target is an AttributeError
create_link_SourceOnly(link_data, T, L) ==
    LET source_term == first(TermsNamed(T, link_data.source))
        target_term == first(TermsNamed(T, link_data.target))
        existing    == first(LinksLike(L, source_term, target_term, link_data.relation))
        db_link     == [source_id |-> source_term, target_id |-> target_term,
                        relation |-> link_data.relation]
    IN  IF source_term = NoId
        THEN Result(HTTPException(404, "Ishodnyi termin ne naiden"), T, L)
        ELSE IF target_term = NoId
        THEN Result(HTTPException(500, "AttributeError"), T, L)
        ELSE IF existing # NoId
        THEN Result(HTTPException(400, "Takaya svyaz uzhe sushchestvuet"), T, L)
        ELSE Result([status |-> 201, detail |-> "link"], T, InsertLinks(L, <<db_link>>))

\* POST /api/links
create_link(link_data, T, L) ==
    LET source_term == first(TermsNamed(T, link_data.source))
        target_term == first(TermsNamed(T, link_data.target))
        existing    == first(LinksLike(L, source_term, target_term, link_data.relation))
        db_link     == [source_id |-> source_term, target_id |-> target_term,
                        relation |-> link_data.relation]
    IN  IF source_term = NoId
        THEN Result(HTTPException(404, "Ishodnyi termin ne naiden"), T, L)
        ELSE IF target_term = NoId
        THEN Result(HTTPException(404, "Celevoi termin ne naiden"), T, L)
        ELSE IF existing # NoId
        THEN Result(HTTPException(400, "Takaya svyaz uzhe sushchestvuet"), T, L)
        ELSE Result([status |-> 201, detail |-> "link"], T, InsertLinks(L, <<db_link>>))

\* DELETE /api/links/{link_id}
delete_link(link_id, T, L) ==
    IF link_id \notin DOMAIN L
    THEN Result(HTTPException(404, "Svyaz ne naidena"), T, L)
    ELSE Result([status |-> 204, detail |-> "link"], T, [i \in DOMAIN L \ {link_id} |-> L[i]])

\* str(n) of a non-negative int: its decimal digits
Digit(d) == CASE d = 0 -> "0" [] d = 1 -> "1" [] d = 2 -> "2" [] d = 3 -> "3"
              [] d = 4 -> "4" [] d = 5 -> "5" [] d = 6 -> "6" [] d = 7 -> "7"
              [] d = 8 -> "8" [] d = 9 -> "9"
RECURSIVE str(_)
str(n) == IF n < 10 THEN Digit(n) ELSE str(n \div 10) \o Digit(n % 10)

\* Query.all(): the rows of a table in rowid order
RECURSIVE all(_)
all(table) ==
    IF DOMAIN table = {} THEN <<>>
    ELSE LET i == first(DOMAIN table)
         IN  <<[id |-> i, row |-> table[i]]>> \o all([j \in DOMAIN table \ {i} |-> table[j]])

GraphNode(t) == [id |-> str(t.id), label |-> t.row.term, definition |-> t.row.definition,
                 node_type |-> IF t.row.node_type \in {None, ""} THEN "term"
                               ELSE t.row.node_type]      \* term.node_type or 'term'
\* variant: the edge built with source and target exchanged
GraphEdge_Reversed(l) == [source |-> str(l.row.target_id), target |-> str(l.row.source_id),
                          relation |-> l.row.relation]

GraphEdge(l) == [source |-> str(l.row.source_id), target |-> str(l.row.target_id),
                 relation |-> l.row.relation]

\* the GraphResponse built by get_graph from the two tables
GraphResponse(T, L) ==
    [nodes |-> [k \in 1..Len(all(T)) |-> GraphNode(all(T)[k])],
     edges |-> [k \in 1..Len(all(L)) |-> GraphEdge(all(L)[k])]]

\* GET /api/graph: the response carries the GraphResponse as its body
get_graph(T, L) ==
    Result([status |-> 200, detail |-> "graph", body |-> GraphResponse(T, L)], T, L)

\* ------------------------------------------- src/app/import_data.py import
get_node_type(term_name) ==
    IF term_name = RootName THEN "root"
    ELSE IF term_name \in ApproachNames THEN "approach"
    ELSE "term"

\* rows of terms.csv and links.csv as csv.DictReader yields them
TermRow == [term : Names, definition : Definitions]
LinkRow == [source : Names, target : Names, relation : Relations]

SeqsUpTo(S, n) == UNION {[1..k -> S] : k \in 0..n}

\* the loop of import_terms from row k on. T is the terms table as stored;
\* s is the session: s.identity holds the loaded Term objects with the
\* changes made so far, s.new the Terms passed to db.add()
RECURSIVE import_terms_rows(_, _, _, _)
import_terms_rows(rows, k, T, s) ==
    IF k > Len(rows) THEN s
    ELSE LET row       == rows[k]
             existing  == first(TermsNamed(T, row.term))
             node_type == get_node_type(row.term)
         IN  IF existing = NoId
             THEN import_terms_rows(rows, k + 1, T,
                      [s EXCEPT !.new = Append(@, [term |-> row.term,
                                                   definition |-> row.definition,
                                                   node_type |-> node_type]),
                                !.added = @ + 1])
             ELSE LET obj     == s.identity[existing]
                      updated == obj.definition # row.definition \/ obj.node_type # node_type
                  IN  import_terms_rows(rows, k + 1, T,
                          [s EXCEPT !.identity[existing] =
                                        [obj EXCEPT !.definition = row.definition,
                                                    !.node_type = node_type],
                                    !.updated = @ + (IF updated THEN 1 ELSE 0),
                                    !.actual = @ + (IF updated THEN 0 ELSE 1)])

\* import_terms: the loop, then db.commit(): the UPDATEs of the changed
\* objects and the INSERTs of the added ones in one transaction
import_terms(rows, T) ==
    LET s      == import_terms_rows(rows, 1, T,
                      [identity |-> T, new |-> <<>>, added |-> 0, updated |-> 0, actual |-> 0])
        commit == InsertTerms(s.identity, s.new)
    IN  [raised |-> commit.raised,
         terms  |-> IF commit.raised THEN T ELSE commit.table,
         added |-> s.added, updated |-> s.updated, actual |-> s.actual]

\* variant: the loop of import_links ends at the first row with a missing
\* source or target (break for continue)
RECURSIVE import_links_rows_Break(_, _, _, _, _)
import_links_rows_Break(rows, k, T, L, s) ==
    IF k > Len(rows) THEN s
    ELSE LET row         == rows[k]
             source_term == first(TermsNamed(T, row.source))
             target_term == first(TermsNamed(T, row.target))
             existing    == first(LinksLike(L, source_term, target_term, row.relation))
         IN  IF source_term = NoId \/ target_term = NoId
             THEN [s EXCEPT !.skipped = @ \cup {k}]
             ELSE IF existing = NoId
             THEN import_links_rows_Break(rows, k + 1, T, L,
                      [s EXCEPT !.new = Append(@, [source_id |-> source_term,
                                                   target_id |-> target_term,
                                                   relation |-> row.relation]),
                                !.added = @ + 1])
             ELSE import_links_rows_Break(rows, k + 1, T, L, [s EXCEPT !.exists = @ + 1])

\* the loop of import_links from row k on. L is the links table as stored:
\* the query for an existing Link does not see the Links in s.new.
\* s.skipped: the rows a warning was printed for
RECURSIVE import_links_rows(_, _, _, _, _)
import_links_rows(rows, k, T, L, s) ==
    IF k > Len(rows) THEN s
    ELSE LET row         == rows[k]
             source_term == first(TermsNamed(T, row.source))
             target_term == first(TermsNamed(T, row.target))
             existing    == first(LinksLike(L, source_term, target_term, row.relation))
         IN  IF source_term = NoId \/ target_term = NoId
             THEN import_links_rows(rows, k + 1, T, L, [s EXCEPT !.skipped = @ \cup {k}])
             ELSE IF existing = NoId
             THEN import_links_rows(rows, k + 1, T, L,
                      [s EXCEPT !.new = Append(@, [source_id |-> source_term,
                                                   target_id |-> target_term,
                                                   relation |-> row.relation]),
                                !.added = @ + 1])
             ELSE import_links_rows(rows, k + 1, T, L, [s EXCEPT !.exists = @ + 1])

\* import_links: the loop, then db.commit()
import_links(rows, T, L) ==
    LET s == import_links_rows(rows, 1, T, L,
                 [new |-> <<>>, added |-> 0, exists |-> 0, skipped |-> {}])
    IN  [links |-> InsertLinks(L, s.new),
         added |-> s.added, exists |-> s.exists, skipped |-> s.skipped]

\* what an import run printed: the error line, and how many lines of each kind
Printed(error, t, added, exists, skipped) ==
    [error |-> error,
     terms_added |-> t.added, terms_updated |-> t.updated, terms_actual |-> t.actual,
     links_added |-> added, links_exist |-> exists, skipped |-> skipped]

\* main() of import_data.py: import_terms, then import_links in the same
\* session; any exception is printed, the session rolled back, and main()
\* returns normally
main(term_rows, link_rows, T, L) ==
    LET t == import_terms(term_rows, T)
        l == import_links(link_rows, t.terms, L)
    IN  IF t.raised
        THEN [terms |-> T, links |-> L, report |-> Printed(TRUE, t, 0, 0, {})]
        ELSE [terms |-> t.terms, links |-> l.links,
              report |-> Printed(FALSE, t, l.added, l.exists, l.skipped)]

\* POST /api/import: runs main(); main() lets no exception out
import_data(term_rows, link_rows, T, L) ==
    LET m == main(term_rows, link_rows, T, L)
    IN  Result([status |-> 200, detail |-> "Dannye uspeshno importirovany"], m.terms, m.links)

\* ------------------------------------ src/main.py: TermDB / TermRelation
\* The second variant keeps its Terms in a table of the same name, terms,
\* with rows [keyword, description, source] (created_at and updated_at are
\* not followed), and its relations in term_relations.
Sources == {None}     \* the requests of the model name no source

\* TermCreate / TermUpdate of src/main.py; related_terms is a list of ids
RelatedLists == SeqsUpTo(1..MaxTermId, MaxRelated)
NoList == <<NoId>>  \* related_terms = None (no list of the requests holds NoId)
TermCreateDB == [keyword : Names, description : Definitions, source : Sources,
                 related_terms : RelatedLists]
TermUpdateDB == [keyword : Names \cup {None}, description : Definitions \cup {None},
                 source : Sources, related_terms : RelatedLists \cup {NoList}]

ResultDB(resp, T, R) == [response |-> resp, terms |-> T, term_relations |-> R]

\* db.query(TermDB).filter(TermDB.keyword == keyword)
TermsKeyed(T, keyword) == {i \in DOMAIN T : T[i].keyword = keyword}

\* the loop over related_terms of create_term and update_term: a relation
\* for every id of the list that is the id of a stored Term other than
\* term_id, in the order of the list
RECURSIVE related_relations(_, _, _)
related_relations(term_id, related_terms, T) ==
    IF related_terms = <<>> THEN <<>>
    ELSE LET related_id == Head(related_terms)
             rest       == related_relations(term_id, Tail(related_terms), T)
         IN  IF related_id \in DOMAIN T /\ related_id # term_id
             THEN <<[term_id |-> term_id, related_term_id |-> related_id,
                     relation_type |-> "related"]>> \o rest
             ELSE rest

\* POST /terms
create_term_db(term, T, R) ==
    LET existing_term == first(TermsKeyed(T, term.keyword))
        db_term == [keyword |-> term.keyword, description |-> term.description,
                    source |-> term.source]
        id      == NextId(T)
        stored  == T @@ (id :> db_term)
    IN  IF existing_term # NoId
        THEN ResultDB(HTTPException(400, "Termin s klyuchevym slovom uzhe sushchestvuet"), T, R)
        ELSE ResultDB([status |-> 201, detail |-> "term"], stored,
                      InsertLinks(R, related_relations(id, term.related_terms, stored)))

\* variant: update_term whose bulk DELETE also matches related_term_id
update_term_db_BothDirections(term_id, term_update, T, R) ==
    LET existing == first({i \in TermsKeyed(T, term_update.keyword) : i # term_id})
        keyed    == IF term_update.keyword # None
                    THEN [T[term_id] EXCEPT !.keyword = term_update.keyword]
                    ELSE T[term_id]
        db_term  == IF term_update.description # None
                    THEN [keyed EXCEPT !.description = term_update.description]
                    ELSE keyed
        stored   == [T EXCEPT ![term_id] = db_term]
        kept     == [i \in {j \in DOMAIN R : /\ R[j].term_id # term_id
                                              /\ R[j].related_term_id # term_id} |-> R[i]]
    IN  IF term_id \notin DOMAIN T
        THEN ResultDB(HTTPException(404, "Termin s ID ne naiden"), T, R)
        ELSE IF term_update.keyword # None /\ existing # NoId
        THEN ResultDB(HTTPException(400, "Termin s klyuchevym slovom uzhe sushchestvuet"), T, R)
        ELSE IF term_update.related_terms = NoList
        THEN ResultDB([status |-> 200, detail |-> "term"], stored, R)
        ELSE ResultDB([status |-> 200, detail |-> "term"], stored,
                      InsertLinks(kept, related_relations(term_id, term_update.related_terms,
                                                          stored)))

\* PUT /terms/{term_id}: the fields are committed first, then the relations
\* with term_id = term_id are deleted and the list's relations added
update_term_db(term_id, term_update, T, R) ==
    LET existing == first({i \in TermsKeyed(T, term_update.keyword) : i # term_id})
        keyed    == IF term_update.keyword # None
                    THEN [T[term_id] EXCEPT !.keyword = term_update.keyword]
                    ELSE T[term_id]
        descr    == IF term_update.description # None
                    THEN [keyed EXCEPT !.description = term_update.description]
                    ELSE keyed
        db_term  == IF term_update.source # None
                    THEN [descr EXCEPT !.source = term_update.source]
                    ELSE descr
        stored   == [T EXCEPT ![term_id] = db_term]
        kept     == [i \in {j \in DOMAIN R : R[j].term_id # term_id} |-> R[i]]
    IN  IF term_id \notin DOMAIN T
        THEN ResultDB(HTTPException(404, "Termin s ID ne naiden"), T, R)
        ELSE IF term_update.keyword # None /\ existing # NoId
        THEN ResultDB(HTTPException(400, "Termin s klyuchevym slovom uzhe sushchestvuet"), T, R)
        ELSE IF term_update.related_terms = NoList
        THEN ResultDB([status |-> 200, detail |-> "term"], stored, R)
        ELSE ResultDB([status |-> 200, detail |-> "term"], stored,
                      InsertLinks(kept, related_relations(term_id, term_update.related_terms,
                                                          stored)))

\* DELETE /terms/{term_id}
delete_term_db(term_id, T, R) ==
    IF term_id \notin DOMAIN T
    THEN ResultDB(HTTPException(404, "Termin s ID ne naiden"), T, R)
    ELSE ResultDB([status |-> 200, detail |-> "Termin uspeshno udalen"],
                  [i \in DOMAIN T \ {term_id} |-> T[i]],
                  [i \in {j \in DOMAIN R : /\ R[j].term_id # term_id
                                           /\ R[j].related_term_id # term_id} |-> R[i]])

\* GET /terms/graph/data
get_graph_data(T, R) ==
    ResultDB([status |-> 200, detail |-> "graph",
              body |-> [nodes |-> [k \in 1..Len(all(T)) |->
                                      [id |-> all(T)[k].id, label |-> all(T)[k].row.keyword,
                                       description |-> all(T)[k].row.description,
                                       source |-> all(T)[k].row.source]],
                        edges |-> [k \in 1..Len(all(R)) |->
                                      [from |-> all(R)[k].row.term_id,
                                       to |-> all(R)[k].row.related_term_id,
                                       type |-> all(R)[k].row.relation_type]]]], T, R)

\* ------------------------------------------------- src/import_glossary.py
\* rows of list.csv: term1;relation_type;term2
ListRow == [term1 : Names, relation_type : Relations, term2 : Names]

\* the keys of the dict terms of parse_csv_file, in insertion order: the
\* names of the rows in the order they first occur
RECURSIVE parsed_terms(_, _, _)
parsed_terms(rows, k, keys) ==
    IF k > Len(rows) THEN keys
    ELSE LET with1 == IF \E j \in DOMAIN keys : keys[j] = rows[k].term1
                      THEN keys ELSE Append(keys, rows[k].term1)
             with2 == IF \E j \in DOMAIN with1 : with1[j] = rows[k].term2
                      THEN with1 ELSE Append(with1, rows[k].term2)
         IN  parsed_terms(rows, k + 1, with2)

\* parse_csv_file: the terms and the relations of the file
parse_csv_file(rows) == [terms |-> parsed_terms(rows, 1, <<>>), relations |-> rows]

\* the dicts load_definitions returns here: a description for some of the names
DefinitionDicts == UNION {[D -> {"def A"}] : D \in SUBSET Names}

\* the TermDB objects created by the first loop of import_to_database
RECURSIVE glossary_terms(_, _, _)
glossary_terms(keys, k, definitions) ==
    IF k > Len(keys) THEN <<>>
    ELSE <<[keyword |-> keys[k],
            description |-> IF keys[k] \in DOMAIN definitions THEN definitions[keys[k]]
                            ELSE "Termin iz glossariya: " \o keys[k],
            source |-> "Glossarii Backend-Driven UI"]>>
         \o glossary_terms(keys, k + 1, definitions)

\* the second loop of import_to_database from row k on. T and R are the
\* tables as stored after the Terms were committed: the query for an
\* existing relation does not see the relations added so far
RECURSIVE glossary_relations(_, _, _, _)
glossary_relations(relations, k, T, R) ==
    IF k > Len(relations) THEN <<>>
    ELSE LET term1 == first(TermsKeyed(T, relations[k].term1))
             term2 == first(TermsKeyed(T, relations[k].term2))
             existing == first({i \in DOMAIN R : /\ R[i].term_id = term1
                                                 /\ R[i].related_term_id = term2
                                                 /\ R[i].relation_type = relations[k].relation_type})
             rest  == glossary_relations(relations, k + 1, T, R)
         IN  IF term1 # NoId /\ term2 # NoId /\ existing = NoId
             THEN <<[term_id |-> term1, related_term_id |-> term2,
                     relation_type |-> relations[k].relation_type]>> \o rest
             ELSE rest

\* import_to_database: both tables are emptied and the deletion committed,
\* then the Terms of the file are created and committed, then its relations.
\* The keys of a dict are distinct, so the unique index of terms.keyword
\* cannot refuse an INSERT into the emptied table
import_to_database(keys, relations, definitions, T, R) ==
    LET created == InsertLinks(<<>>, glossary_terms(keys, 1, definitions))
    IN  ResultDB([status |-> 0, detail |-> "import_to_database"], created,
                 InsertLinks(<<>>, glossary_relations(relations, 1, created, <<>>)))

\* ------------------------------------------------------- specifications
\* the contents of the two files: <<rows of terms.csv, rows of links.csv>>
Batches == UNION {[1..k -> TermRow] \X [1..(n - k) -> LinkRow] :
                      <<k, n>> \in {kn \in (0..MaxRows) \X (0..MaxRows) : kn[1] <= kn[2]}}

\* the store hands out no id above the bounds
WithinBounds(r) ==
    /\ DOMAIN r.terms \subseteq 1..MaxTermId
    /\ DOMAIN r.links \subseteq 1..MaxLinkId

\* one request served
Serve(r) ==
    /\ WithinBounds(r)
    /\ terms' = r.terms
    /\ links' = r.links
    /\ response' = r.response

\* no request is being served
Workers   == {1, 2}
NoWorkers == [w \in Workers |-> [op |-> "none", pc |-> "idle"]]

NoReport == [error |-> FALSE, terms_added |-> 0, terms_updated |-> 0, terms_actual |-> 0,
             links_added |-> 0, links_exist |-> 0, skipped |-> {}]

\* Spec: the service from an empty database; requests arrive one at a
\* time, and each import run reads whatever the two files hold by then
\* (the files and the printed output are not followed).
Init ==
    /\ terms = <<>>
    /\ links = <<>>
    /\ response = [status |-> 0, detail |-> "startup"]
    /\ terms_csv = <<>>
    /\ links_csv = <<>>
    /\ runs = 0
    /\ report = NoReport
    /\ warned = {}
    /\ term_relations = <<>>
    /\ workers = NoWorkers

CreateTerm == \E term_data \in TermCreate : Serve(create_term(term_data, terms, links))
UpdateTerm == \E term_id \in 1..MaxTermId, term_data \in TermUpdate :
                  Serve(update_term(term_id, term_data, terms, links))
DeleteTerm == \E term_id \in 1..MaxTermId : Serve(delete_term(term_id, terms, links))
CreateLink == \E link_data \in LinkCreate : Serve(create_link(link_data, terms, links))
DeleteLink == \E link_id \in 1..MaxLinkId : Serve(delete_link(link_id, terms, links))
GetGraph   == Serve(get_graph(terms, links))
ImportData == \E batch \in Batches : Serve(import_data(batch[1], batch[2], terms, links))

Next ==
    \/ CreateTerm /\ UNCHANGED <<files, runs, report, warned, term_relations, workers>>
    \/ UpdateTerm /\ UNCHANGED <<files, runs, report, warned, term_relations, workers>>
    \/ DeleteTerm /\ UNCHANGED <<files, runs, report, warned, term_relations, workers>>
    \/ CreateLink /\ UNCHANGED <<files, runs, report, warned, term_relations, workers>>
    \/ DeleteLink /\ UNCHANGED <<files, runs, report, warned, term_relations, workers>>
    \/ GetGraph /\ UNCHANGED <<files, runs, report, warned, term_relations, workers>>
    \/ ImportData /\ UNCHANGED <<files, runs, report, warned, term_relations, workers>>

Spec == Init /\ [][Next]_vars

\* SpecImport: two fixed files and a store the service can be in; the
\* import is run over the same files again and again, and Terms may be
\* added between the runs.
TermRecord == [term : Names, definition : Definitions,
               node_type : {"term"} \cup {get_node_type(n) : n \in Names}]
StartTerms == {T \in UNION {[D -> TermRecord] : D \in SUBSET (1..MaxTermId)} :
                  \A i, j \in DOMAIN T : T[i].term = T[j].term => i = j}
StartLinks(T) ==
    UNION {[D -> [source_id : DOMAIN T, target_id : DOMAIN T, relation : Relations]] :
               D \in {E \in SUBSET (1..MaxLinkId) : Cardinality(E) <= MaxStartLinks}}
ImportBatches ==
    UNION {[1..k -> TermRow] \X [1..(n - k) -> LinkRow] :
               <<k, n>> \in {kn \in (0..MaxFileRows) \X (0..MaxFileRows) : kn[1] <= kn[2]}}

InitImport ==
    /\ terms \in StartTerms
    /\ links \in StartLinks(terms)
    /\ response = [status |-> 0, detail |-> "startup"]
    /\ \E batch \in ImportBatches : terms_csv = batch[1] /\ links_csv = batch[2]
    /\ runs = 0
    /\ report = NoReport
    /\ warned = {}
    /\ term_relations = <<>>
    /\ workers = NoWorkers

ImportRun ==
    /\ runs < MaxRuns
    /\ Serve(import_data(terms_csv, links_csv, terms, links))
    /\ report' = main(terms_csv, links_csv, terms, links).report
    /\ warned' = warned \cup report'.skipped
    /\ runs' = runs + 1
    /\ UNCHANGED <<files, term_relations, workers>>

AddTerm ==
    /\ runs >= 1
    /\ CreateTerm
    /\ response'.status = 201
    /\ runs' = 0
    /\ UNCHANGED <<files, report, warned, term_relations, workers>>

NextImport == ImportRun \/ AddTerm

SpecImport == InitImport /\ [][NextImport]_vars

\* SpecTermDB: the service of src/main.py from an empty database, one
\* request at a time, and runs of import_glossary.py over whatever list.csv
\* and definitions.txt hold by then.
ListFiles == SeqsUpTo(ListRow, MaxListRows)

ServeDB(r) ==
    /\ DOMAIN r.terms \subseteq 1..MaxTermId
    /\ DOMAIN r.term_relations \subseteq 1..MaxRelationId
    /\ terms' = r.terms
    /\ term_relations' = r.term_relations
    /\ response' = r.response

InitTermDB ==
    /\ terms = <<>>
    /\ links = <<>>
    /\ response = [status |-> 0, detail |-> "startup"]
    /\ terms_csv = <<>>
    /\ links_csv = <<>>
    /\ runs = 0
    /\ report = NoReport
    /\ warned = {}
    /\ term_relations = <<>>
    /\ workers = NoWorkers

CreateTermDB == \E term \in TermCreateDB : ServeDB(create_term_db(term, terms, term_relations))
UpdateTermDB == \E term_id \in 1..MaxTermId, term_update \in TermUpdateDB :
                    ServeDB(update_term_db(term_id, term_update, terms, term_relations))
DeleteTermDB == \E term_id \in 1..MaxTermId :
                    ServeDB(delete_term_db(term_id, terms, term_relations))
GetGraphData == ServeDB(get_graph_data(terms, term_relations))
ImportGlossary ==
    \E rows \in ListFiles, definitions \in DefinitionDicts :
        LET parsed == parse_csv_file(rows)
        IN  ServeDB(import_to_database(parsed.terms, parsed.relations, definitions,
                                       terms, term_relations))

NextTermDB ==
    \/ CreateTermDB /\ UNCHANGED <<links, files, runs, report, warned, workers>>
    \/ UpdateTermDB /\ UNCHANGED <<links, files, runs, report, warned, workers>>
    \/ DeleteTermDB /\ UNCHANGED <<links, files, runs, report, warned, workers>>
    \/ GetGraphData /\ UNCHANGED <<links, files, runs, report, warned, workers>>
    \/ ImportGlossary /\ UNCHANGED <<links, files, runs, report, warned, workers>>

SpecTermDB == InitTermDB /\ [][NextTermDB]_vars

\* SpecConcurrent: two worker processes of the service on one database
\* file, each serving one request, and runs of import_data.py by a third
\* process, at most once. Every SELECT of a handler is a step of its own (the sqlite3
\* driver opens no transaction for a SELECT, so each sees what is committed
\* by then); the writes of a handler and its COMMIT are one step (SQLite
\* admits one writer at a time). A run of the import is taken as one step.
ConcurrentTermCreate == [term : Names, definition : {"def A"}, node_type : {"term"}]
ConcurrentStart ==
    {T \in StartTerms : \A i \in DOMAIN T : T[i].definition = "def A" /\ T[i].node_type = "term"}
ConcurrentBatches ==
    {batch \in Batches : /\ Len(batch[1]) <= 1
                         /\ Len(batch[2]) <= 1
                         /\ \A k \in DOMAIN batch[1] : batch[1][k].definition = "def A"}

InitConcurrent ==
    /\ terms \in ConcurrentStart
    /\ links \in StartLinks(terms)
    /\ response = [status |-> 0, detail |-> "startup"]
    /\ terms_csv = <<>>
    /\ links_csv = <<>>
    /\ runs = 0
    /\ report = NoReport
    /\ warned = {}
    /\ term_relations = <<>>
    /\ workers = NoWorkers

\* the handler of worker w has returned or raised
Return(w, op, request, resp) ==
    workers' = [workers EXCEPT ![w] = [op |-> op, pc |-> "done", request |-> request,
                                       response |-> resp]]

\* get_graph: terms = db.query(Term).all()
GetGraphTerms(w) ==
    /\ workers[w].pc = "idle"
    /\ workers' = [workers EXCEPT ![w] = [op |-> "get_graph", pc |-> "get_graph:links",
                                          terms |-> terms]]
    /\ UNCHANGED <<terms, links>>

\* get_graph: links = db.query(Link).all(), then the response is built
GetGraphLinks(w) ==
    /\ workers[w].pc = "get_graph:links"
    /\ Return(w, "get_graph", None,
              [status |-> 200, detail |-> "graph",
               body |-> GraphResponse(workers[w].terms, links)])
    /\ UNCHANGED <<terms, links>>

\* create_term: the query for an existing Term of the name
CreateTermQuery(w) ==
    /\ workers[w].pc = "idle"
    /\ \E term_data \in ConcurrentTermCreate :
           IF first(TermsNamed(terms, term_data.term)) # NoId
           THEN Return(w, "create_term", term_data,
                       create_term(term_data, terms, links).response)
           ELSE workers' = [workers EXCEPT ![w] = [op |-> "create_term",
                                                   pc |-> "create_term:commit",
                                                   request |-> term_data]]
    /\ UNCHANGED <<terms, links>>

\* variant: the INSERT of create_term into a table without the unique index
create_term_commit_NoIndex(term_data, T, L) ==
    Result([status |-> 201, detail |-> "term"],
           T @@ (NextId(T) :> [term |-> term_data.term, definition |-> term_data.definition,
                               node_type |-> "term"]), L)

\* create_term: db.add(db_term); db.commit() on the tables as they are now
create_term_commit(term_data, T, L) ==
    LET db_term == [term |-> term_data.term, definition |-> term_data.definition,
                    node_type |-> "term"]
        commit  == InsertTerms(T, <<db_term>>)
    IN  IF commit.raised
        THEN Result(HTTPException(500, "IntegrityError"), T, L)
        ELSE Result([status |-> 201, detail |-> "term"], commit.table, L)

CreateTermCommit(w) ==
    /\ workers[w].pc = "create_term:commit"
    /\ LET r == create_term_commit(workers[w].request, terms, links)
       IN  /\ WithinBounds(r)
           /\ terms' = r.terms
           /\ links' = r.links
           /\ Return(w, "create_term", workers[w].request, r.response)

\* create_link: the query for the source Term
CreateLinkSource(w) ==
    /\ workers[w].pc = "idle"
    /\ \E link_data \in LinkCreate :
           workers' = [workers EXCEPT ![w] =
                          [op |-> "create_link", pc |-> "create_link:target",
                           request |-> link_data,
                           source_term |-> first(TermsNamed(terms, link_data.source))]]
    /\ UNCHANGED <<terms, links>>

\* create_link: the query for the target Term, then the two tests
CreateLinkTarget(w) ==
    /\ workers[w].pc = "create_link:target"
    /\ LET link_data   == workers[w].request
           target_term == first(TermsNamed(terms, link_data.target))
       IN  IF workers[w].source_term = NoId
           THEN Return(w, "create_link", link_data,
                       HTTPException(404, "Ishodnyi termin ne naiden"))
           ELSE IF target_term = NoId
           THEN Return(w, "create_link", link_data,
                       HTTPException(404, "Celevoi termin ne naiden"))
           ELSE workers' = [workers EXCEPT ![w] =
                               [op |-> "create_link", pc |-> "create_link:existing",
                                request |-> link_data,
                                source_term |-> workers[w].source_term,
                                target_term |-> target_term]]
    /\ UNCHANGED <<terms, links>>

\* create_link: the query for an existing Link
CreateLinkExisting(w) ==
    /\ workers[w].pc = "create_link:existing"
    /\ IF LinksLike(links, workers[w].source_term, workers[w].target_term,
                    workers[w].request.relation) # {}
       THEN Return(w, "create_link", workers[w].request,
                   HTTPException(400, "Takaya svyaz uzhe sushchestvuet"))
       ELSE workers' = [workers EXCEPT ![w].pc = "create_link:commit"]
    /\ UNCHANGED <<terms, links>>

\* create_link: db.add(db_link); db.commit() with the ids read before.
\* The foreign keys of links are not enforced (no PRAGMA foreign_keys)
create_link_commit(source_id, target_id, relation, T, L) ==
    Result([status |-> 201, detail |-> "link"], T,
           InsertLinks(L, <<[source_id |-> source_id, target_id |-> target_id,
                             relation |-> relation]>>))

CreateLinkCommit(w) ==
    /\ workers[w].pc = "create_link:commit"
    /\ LET r == create_link_commit(workers[w].source_term, workers[w].target_term,
                                   workers[w].request.relation, terms, links)
       IN  /\ WithinBounds(r)
           /\ terms' = r.terms
           /\ links' = r.links
           /\ Return(w, "create_link", workers[w].request, r.response)

\* delete_term: the query for the Term
DeleteTermQuery(w) ==
    /\ workers[w].pc = "idle"
    /\ \E term_id \in 1..MaxTermId :
           IF term_id \notin DOMAIN terms
           THEN Return(w, "delete_term", term_id, delete_term(term_id, terms, links).response)
           ELSE workers' = [workers EXCEPT ![w] = [op |-> "delete_term",
                                                   pc |-> "delete_term:commit",
                                                   request |-> term_id]]
    /\ UNCHANGED <<terms, links>>

\* delete_term: the bulk DELETE of the Links, db.delete(term) and
\* db.commit() on the tables as they are now; a DELETE by id that matches
\* no row is a warning of the ORM, not an exception
delete_term_commit(term_id, T, L) ==
    Result([status |-> 204, detail |-> "term"],
           [i \in DOMAIN T \ {term_id} |-> T[i]],
           [i \in DOMAIN L \ LinksOfTerm(L, term_id) |-> L[i]])

DeleteTermCommit(w) ==
    /\ workers[w].pc = "delete_term:commit"
    /\ LET r == delete_term_commit(workers[w].request, terms, links)
       IN  /\ terms' = r.terms
           /\ links' = r.links
           /\ Return(w, "delete_term", workers[w].request, r.response)

\* the one run of import_data.py by another process
ImportProcess ==
    /\ runs = 0
    /\ runs' = 1
    /\ \E batch \in ConcurrentBatches :
           LET m == main(batch[1], batch[2], terms, links)
           IN  /\ WithinBounds(m)
               /\ terms' = m.terms
               /\ links' = m.links
    /\ UNCHANGED workers

NextConcurrent ==
    \/ \E w \in Workers : GetGraphTerms(w) /\ UNCHANGED <<response, files, runs, report, warned, term_relations>>
    \/ \E w \in Workers : GetGraphLinks(w) /\ UNCHANGED <<response, files, runs, report, warned, term_relations>>
    \/ \E w \in Workers : CreateTermQuery(w) /\ UNCHANGED <<response, files, runs, report, warned, term_relations>>
    \/ \E w \in Workers : CreateTermCommit(w) /\ UNCHANGED <<response, files, runs, report, warned, term_relations>>
    \/ \E w \in Workers : CreateLinkSource(w) /\ UNCHANGED <<response, files, runs, report, warned, term_relations>>
    \/ \E w \in Workers : CreateLinkTarget(w) /\ UNCHANGED <<response, files, runs, report, warned, term_relations>>
    \/ \E w \in Workers : CreateLinkExisting(w) /\ UNCHANGED <<response, files, runs, report, warned, term_relations>>
    \/ \E w \in Workers : CreateLinkCommit(w) /\ UNCHANGED <<response, files, runs, report, warned, term_relations>>
    \/ \E w \in Workers : DeleteTermQuery(w) /\ UNCHANGED <<response, files, runs, report, warned, term_relations>>
    \/ \E w \in Workers : DeleteTermCommit(w) /\ UNCHANGED <<response, files, runs, report, warned, term_relations>>
    \/ ImportProcess /\ UNCHANGED <<response, files, report, warned, term_relations>>

SpecConcurrent == InitConcurrent /\ [][NextConcurrent]_vars

\* ------------------------------------------------------------- the claims
\* C1: in every reachable state no two Terms have the same name.
C1_NamesUnique ==
    \A i, j \in DOMAIN terms : terms[i].term = terms[j].term => i = j

\* two Terms are stored and the last request, a rename onto the other
\* Term's name, was refused
C1_Witness ==
    /\ Cardinality(DOMAIN terms) = 2
    /\ response = HTTPException(400, "Termin s takim nazvaniem uzhe sushchestvuet")

\* C2: every Link's source_id and target_id is the id of a stored Term, and
\* every edge of the graph get_graph builds has its source and its target
\* among the ids of the nodes.
C2_NoOrphanLink ==
    /\ \A i \in DOMAIN links : /\ links[i].source_id \in DOMAIN terms
                               /\ links[i].target_id \in DOMAIN terms
    /\ LET g   == GraphResponse(terms, links)
           ids == {g.nodes[k].id : k \in DOMAIN g.nodes}
       IN  \A k \in DOMAIN g.edges : g.edges[k].source \in ids /\ g.edges[k].target \in ids

\* a Term has just been deleted and a Link between remaining Terms is left
C2_Witness ==
    /\ response = [status |-> 204, detail |-> "term"]
    /\ links # <<>>

\* C3 (as claimed): no two Links have the same (source_id, target_id, relation).
C3_TriplesUnique ==
    \A i, j \in DOMAIN links :
        (/\ links[i].source_id = links[j].source_id
         /\ links[i].target_id = links[j].target_id
         /\ links[i].relation = links[j].relation) => i = j

\* C4: create_term with a name that a Term already has answers 400 "term
\* exists" and leaves both tables as they are, with exactly one Term of
\* that name.
C4_DuplicateTermRejected ==
    \A term_data \in TermCreate :
        TermsNamed(terms, term_data.term) # {} =>
            LET r == create_term(term_data, terms, links)
            IN  /\ r.response = HTTPException(400, "Termin uzhe sushchestvuet")
                /\ r.terms = terms
                /\ r.links = links
                /\ Cardinality(TermsNamed(r.terms, term_data.term)) = 1

\* the last request was a create_term refused as a duplicate; the Term of
\* that name is stored
C4_Witness ==
    /\ response = HTTPException(400, "Termin uzhe sushchestvuet")
    /\ terms # <<>>

\* C5: create_link for a (source, target, relation) that a Link already has
\* answers 400 "link exists" and leaves both tables as they are.
C5_DuplicateLinkRejected ==
    \A link_data \in LinkCreate :
        LET s == first(TermsNamed(terms, link_data.source))
            t == first(TermsNamed(terms, link_data.target))
        IN  (s # NoId /\ t # NoId /\ LinksLike(links, s, t, link_data.relation) # {}) =>
                LET r == create_link(link_data, terms, links)
                IN  /\ r.response = HTTPException(400, "Takaya svyaz uzhe sushchestvuet")
                    /\ r.terms = terms
                    /\ r.links = links

\* the last request was a create_link refused as a duplicate
C5_Witness ==
    /\ response = HTTPException(400, "Takaya svyaz uzhe sushchestvuet")
    /\ links # <<>>

\* C6: create_link whose source or target names no Term answers 404 and
\* leaves both tables as they are.
C6_LinkEndpointNotFound ==
    \A link_data \in LinkCreate :
        (TermsNamed(terms, link_data.source) = {} \/ TermsNamed(terms, link_data.target) = {}) =>
            LET r == create_link(link_data, terms, links)
            IN  /\ r.response.status = 404
                /\ r.terms = terms
                /\ r.links = links

\* the last request was a create_link refused for a missing target while
\* Terms and Links are stored
C6_Witness ==
    /\ response = HTTPException(404, "Celevoi termin ne naiden")
    /\ terms # <<>>
    /\ links # <<>>

\* the store as the import claims compare it: the Terms as (name,
\* definition, node_type), the Links as how many there are of each
\* (source name, target name, relation)
TermsView(T) == {T[i] : i \in DOMAIN T}
LinksView(T, L) ==
    [n \in Names \X Names \X Relations |->
        Cardinality({i \in DOMAIN L : /\ L[i].source_id \in DOMAIN T
                                      /\ L[i].target_id \in DOMAIN T
                                      /\ T[L[i].source_id].term = n[1]
                                      /\ T[L[i].target_id].term = n[2]
                                      /\ L[i].relation = n[3]})]

\* C7: an import run that follows an import run over the same files leaves
\* the Terms and the Links as the first run left them.
C7_ImportIdempotent ==
    [][(runs >= 1 /\ runs' = runs + 1) =>
           /\ TermsView(terms') = TermsView(terms)
           /\ LinksView(terms', links') = LinksView(terms, links)]_vars

\* a second run has found a Term of the file up to date and a Link of the
\* file stored
C7_Witness ==
    /\ runs = 2
    /\ ~report.error
    /\ report.terms_actual >= 1
    /\ report.links_exist >= 1

\* C8 (as claimed): the second of two consecutive import runs over the same
\* files adds no Term, updates no Term and adds no Link.
C8_SecondRunDoesNothing ==
    runs = 2 => /\ report.terms_added = 0
                /\ report.terms_updated = 0
                /\ report.links_added = 0

\* the rows of links.csv whose source or target names no Term of T
Unresolved(rows, T) ==
    {k \in DOMAIN rows : TermsNamed(T, rows[k].source) = {} \/ TermsNamed(T, rows[k].target) = {}}

\* the Links of L that row is about
LinksOfRow(row, T, L) ==
    {i \in DOMAIN L : /\ L[i].source_id \in TermsNamed(T, row.source)
                      /\ L[i].target_id \in TermsNamed(T, row.target)
                      /\ L[i].relation = row.relation}

\* the names terms.csv has in two rows and the store has in no Term
RepeatedNewNames(rows, T) ==
    {rows[k].term : k \in {k \in DOMAIN rows :
        /\ TermsNamed(T, rows[k].term) = {}
        /\ \E j \in DOMAIN rows : j # k /\ rows[j].term = rows[k].term}}

\* C9: an import run ends in an error only for a new name repeated in
\* terms.csv, never for a row of links.csv. In a run that gets to
\* links.csv, the rows with a missing source or target are exactly the rows
\* skipped with a warning, no Link is added for them, every other row has
\* its Link in the store afterwards, and no stored Link is lost.
C9_MissingEndpointSkipped ==
    [][(runs' = runs + 1) =>
         /\ (report'.error <=> (RepeatedNewNames(terms_csv, terms) # {}))
         /\ (~report'.error =>
               /\ report'.skipped = Unresolved(links_csv, terms')
               /\ \A k \in DOMAIN links_csv \ report'.skipped :
                      LinksOfRow(links_csv[k], terms', links') # {}
               /\ \A i \in DOMAIN links' \ DOMAIN links :
                      \E k \in DOMAIN links_csv \ report'.skipped :
                          i \in LinksOfRow(links_csv[k], terms', links')
               /\ \A i \in DOMAIN links : i \in DOMAIN links' /\ links'[i] = links[i])]_vars

\* a row skipped by an earlier run over these files has its Link now, and
\* the last run skipped a row and added the Link of a later one
C9_Witness ==
    /\ \E k \in warned : LinksOfRow(links_csv[k], terms, links) # {}
    /\ \E k \in report.skipped : \E j \in DOMAIN links_csv : j > k /\ j \notin report.skipped
    /\ report.links_added >= 1

\* C10 (as claimed): after an import run every row of terms.csv whose name
\* no other row of the file has is applied: a Term of that name with the
\* row's definition is stored.
C10_RowsIndependent ==
    runs >= 1 =>
        \A k \in DOMAIN terms_csv :
            (\A j \in DOMAIN terms_csv : terms_csv[j].term = terms_csv[k].term => j = k) =>
                \E i \in DOMAIN terms : /\ terms[i].term = terms_csv[k].term
                                        /\ terms[i].definition = terms_csv[k].definition

\* C12: get_graph changes neither table and returns exactly one node per
\* Term, with the Term's id, name, definition and node_type, and exactly
\* one edge per Link, with the Link's source id, target id and relation;
\* from a store of two Terms and one "related" Link from the first to the
\* second, delete_term of the first leaves a graph of one node, the second
\* Term, and no edge.
C12_GraphIsProjection ==
    LET r == get_graph(terms, links)
        g == r.response.body
        NodeOf(i) == [id |-> str(i), label |-> terms[i].term,
                      definition |-> terms[i].definition, node_type |-> terms[i].node_type]
        EdgeOf(i) == [source |-> str(links[i].source_id), target |-> str(links[i].target_id),
                      relation |-> links[i].relation]
    IN  /\ r.terms = terms
        /\ r.links = links
        /\ Len(g.nodes) = Cardinality(DOMAIN terms)
        /\ \A i \in DOMAIN terms :
               Cardinality({k \in DOMAIN g.nodes : g.nodes[k].id = str(i)}) = 1
        /\ \A i \in DOMAIN terms : \E k \in DOMAIN g.nodes : g.nodes[k] = NodeOf(i)
        /\ Len(g.edges) = Cardinality(DOMAIN links)
        /\ \A i \in DOMAIN links :
               Cardinality({k \in DOMAIN g.edges : g.edges[k] = EdgeOf(i)})
                   = Cardinality({j \in DOMAIN links : EdgeOf(j) = EdgeOf(i)})
        /\ \A a, b \in DOMAIN terms :
               (/\ DOMAIN terms = {a, b}
                /\ a # b
                /\ Cardinality(DOMAIN links) = 1
                /\ \A i \in DOMAIN links :
                       links[i] = [source_id |-> a, target_id |-> b, relation |-> "related"]) =>
                   LET d == delete_term(a, terms, links)
                   IN  get_graph(d.terms, d.links).response.body
                           = [nodes |-> <<NodeOf(b)>>, edges |-> <<>>]

\* the last request was a get_graph that returned one node, the Term with
\* id 2, and no edge
C12_Witness ==
    /\ response.detail = "graph"
    /\ Len(response.body.nodes) = 1
    /\ response.body.nodes[1].id = "2"
    /\ response.body.edges = <<>>

\* C16: update_term of an id no Term has answers 404, update_term whose new
\* name is the name of another Term answers 400, and in both cases the two
\* tables stay as they are, the definition of the request included.
C16_UpdateRejectedUnchanged ==
    \A term_id \in 1..MaxTermId, term_data \in TermUpdate :
        LET r == update_term(term_id, term_data, terms, links)
        IN  /\ term_id \notin DOMAIN terms =>
                   /\ r.response = HTTPException(404, "Termin ne naiden")
                   /\ r.terms = terms
                   /\ r.links = links
            /\ (/\ term_id \in DOMAIN terms
                /\ \E j \in DOMAIN terms : j # term_id /\ terms[j].term = term_data.term) =>
                   /\ r.response = HTTPException(400, "Termin s takim nazvaniem uzhe sushchestvuet")
                   /\ r.terms = terms
                   /\ r.links = links

\* a rename onto the other Term's name has just been refused while the two
\* Terms have different definitions and a Link is stored
C16_Witness ==
    /\ response = HTTPException(400, "Termin s takim nazvaniem uzhe sushchestvuet")
    /\ DOMAIN terms = {1, 2}
    /\ terms[1].definition # terms[2].definition
    /\ links # <<>>

\* C17 (as claimed): a successful create_term stores the node_type of the
\* request, and a successful update_term that supplies a node_type stores it.
C17_NodeTypeStored ==
    /\ \A term_data \in TermCreate :
           LET r == create_term(term_data, terms, links)
           IN  r.response.status = 201 =>
                   \A i \in DOMAIN r.terms \ DOMAIN terms :
                       r.terms[i].node_type = term_data.node_type
    /\ \A term_id \in 1..MaxTermId, term_data \in TermUpdate :
           LET r == update_term(term_id, term_data, terms, links)
           IN  (r.response.status = 200 /\ term_data.node_type # None) =>
                   r.terms[term_id].node_type = term_data.node_type

\* C18 (as claimed): after an import run that failed and was rolled back the
\* import endpoint has not answered with the success message.
C18_FailedImportReported ==
    (runs >= 1 /\ report.error) =>
        /\ response.status # 200
        /\ response.detail # "Dannye uspeshno importirovany"

\* C19: delete_term of a stored id removes that Term and the Links that have
\* it as source or target, and leaves every other Term and Link as it is;
\* delete_term of an id no Term has answers 404 and changes nothing.
C19_DeleteTermFrame ==
    \A term_id \in 1..MaxTermId :
        LET r == delete_term(term_id, terms, links)
        IN  /\ term_id \in DOMAIN terms =>
                   /\ r.response.status = 204
                   /\ DOMAIN r.terms = DOMAIN terms \ {term_id}
                   /\ \A i \in DOMAIN r.terms : r.terms[i] = terms[i]
                   /\ DOMAIN r.links = {i \in DOMAIN links : /\ links[i].source_id # term_id
                                                             /\ links[i].target_id # term_id}
                   /\ \A i \in DOMAIN r.links : r.links[i] = links[i]
            /\ term_id \notin DOMAIN terms =>
                   /\ r.response = HTTPException(404, "Termin ne naiden")
                   /\ r.terms = terms
                   /\ r.links = links

\* a Term has just been deleted; the other Term and its Link onto itself
\* are still stored
C19_Witness ==
    /\ response = [status |-> 204, detail |-> "term"]
    /\ Cardinality(DOMAIN terms) = 1
    /\ \E i \in DOMAIN links : links[i].source_id = links[i].target_id

\* C11 (as claimed): a run of the import removes and renames no Term and
\* removes no relation that was stored before it: every keyword stored
\* before is stored after, with its row unchanged when list.csv does not
\* name it, and every relation stored before still links the same keywords.
C11_ImportMerges ==
    [][(response'.detail = "import_to_database") =>
         /\ \A i \in DOMAIN terms : TermsKeyed(terms', terms[i].keyword) # {}
         /\ \A i \in DOMAIN term_relations :
                \E j \in DOMAIN term_relations' :
                    /\ term_relations'[j].relation_type = term_relations[i].relation_type
                    /\ term_relations'[j].term_id
                           \in TermsKeyed(terms', terms[term_relations[i].term_id].keyword)
                    /\ term_relations'[j].related_term_id
                           \in TermsKeyed(terms', terms[term_relations[i].related_term_id].keyword)]_vars

\* C13 (as claimed): the graph a get_graph call returns, whatever the other
\* processes committed while it ran, has the source and the target of every
\* edge among the ids of its nodes.
C13_GraphFromOneSnapshot ==
    \A w \in Workers :
        (workers[w].pc = "done" /\ workers[w].op = "get_graph") =>
            LET g   == workers[w].response.body
                ids == {g.nodes[k].id : k \in DOMAIN g.nodes}
            IN  \A k \in DOMAIN g.edges : g.edges[k].source \in ids /\ g.edges[k].target \in ids

\* C14: when the two workers have both completed a create_term of the same
\* name, however their queries and commits were interleaved, at most one
\* of them answered 201 and exactly one Term of that name is stored.
C14_OneConcurrentCreateWins ==
    (/\ \A w \in Workers : workers[w].pc = "done" /\ workers[w].op = "create_term"
     /\ workers[1].request.term = workers[2].request.term) =>
        /\ Cardinality({w \in Workers : workers[w].response.status = 201}) <= 1
        /\ Cardinality(TermsNamed(terms, workers[1].request.term)) = 1

\* both workers found no Term of the name, then one commit stored it and
\* the other failed on the unique index
C14_Witness ==
    /\ \A w \in Workers : workers[w].pc = "done" /\ workers[w].op = "create_term"
    /\ workers[1].request.term = workers[2].request.term
    /\ workers[1].response.status = 201
    /\ workers[2].response = HTTPException(500, "IntegrityError")
    /\ Cardinality(TermsNamed(terms, workers[1].request.term)) = 1

\* C15 (as claimed): when the two workers have both completed a create_link
\* of the same (source, target, relation), at most one Link between the
\* Terms of these names with this relation is stored.
C15_OneConcurrentLink ==
    (/\ \A w \in Workers : workers[w].pc = "done" /\ workers[w].op = "create_link"
     /\ workers[1].request = workers[2].request) =>
        Cardinality(LinksOfRow(workers[1].request, terms, links)) <= 1

\* C20 (as claimed): when a create_link and a delete_term have both
\* completed, however their steps were interleaved, every Link has its
\* source and its target among the stored Terms.
C20_NoLinkToDeletedTerm ==
    (\E w, v \in Workers :
        /\ workers[w].pc = "done" /\ workers[w].op = "create_link"
        /\ workers[v].pc = "done" /\ workers[v].op = "delete_term") =>
        \A i \in DOMAIN links : /\ links[i].source_id \in DOMAIN terms
                                /\ links[i].target_id \in DOMAIN terms

\* C21: a successful update_term of src/main.py that supplies related_terms
\* leaves every relation whose term_id is another Term's as it is, those
\* pointing to the Term included, and leaves as the relations of the Term
\* one "related" relation for each element of the list that is the id of a
\* stored Term other than the Term itself, and no other; one that supplies
\* no related_terms leaves the relations as they are.
C21_OutgoingRelationsReplaced ==
    \A term_id \in 1..MaxTermId, term_update \in TermUpdateDB :
        LET r  == update_term_db(term_id, term_update, terms, term_relations)
            R  == r.term_relations
            L  == term_update.related_terms
        IN  r.response.status = 200 =>
                IF L = NoList THEN R = term_relations
                ELSE /\ \A i \in DOMAIN term_relations :
                            term_relations[i].term_id # term_id =>
                                i \in DOMAIN R /\ R[i] = term_relations[i]
                     /\ \A j \in DOMAIN R :
                            R[j].term_id # term_id =>
                                j \in DOMAIN term_relations /\ R[j] = term_relations[j]
                     /\ \A j \in DOMAIN R :
                            R[j].term_id = term_id => R[j].relation_type = "related"
                     /\ \A x \in 0..(MaxTermId + 1) :
                            Cardinality({j \in DOMAIN R : /\ R[j].term_id = term_id
                                                         /\ R[j].related_term_id = x})
                                = IF x \in DOMAIN terms \ {term_id}
                                  THEN Cardinality({k \in DOMAIN L : L[k] = x})
                                  ELSE 0

\* the last request was an update_term; Term 1, created by a request, has
\* the two relations of a list that names Term 2 twice
C21_Witness ==
    /\ response = [status |-> 200, detail |-> "term"]
    /\ DOMAIN terms = {1, 2}
    /\ terms[1].source = None
    /\ DOMAIN term_relations = {1, 2}
    /\ \A j \in DOMAIN term_relations :
           term_relations[j] = [term_id |-> 1, related_term_id |-> 2, relation_type |-> "related"]
====
